---------------------------- MODULE Spec2Model ----------------------------
(***************************************************************************)
(* LASER DEFENDER (app.js): the game engine as a state machine.            *)
(*                                                                         *)
(* Positions are canvas pixels (600 x 800), time is milliseconds of        *)
(* Date.now().  enemySpeedMult is kept in hundredths (0.7 -> 70) so that   *)
(* the wave formula base + wb*0.08 stays in the integers.  Math.random()   *)
(* draws are inputs of the frame action; an enemy's speed draw is an       *)
(* integer number of pixels inside the real interval                       *)
(* [2*enemySpeedMult, 5*enemySpeedMult) the code draws from.               *)
(* The star field, the audio cues and the HUD text are not modelled, nor    *)
(* are the timers whose callbacks only remove a DOM element or a CSS class  *)
(* (flash, screen shake, wave and meteor notices, toasts), nor the date     *)
(* field of a leaderboard entry.                                            *)
(***************************************************************************)
EXTENDS Integers, Sequences, FiniteSets, Bags, TLC

VARIABLES
  player, bullets, enemies, particles, meteors,     \* entity stores
  score, lives, keys,
  gameRunning, gamePaused, gameStarted, frame,      \* lifecycle flags
  waveNumber, killsThisWave, shotsFired, shotsHit, enemiesKilled,
  startTime, elapsedTime,
  difficulty, enemySpawnRate, enemySpeedMult, lastShot, idleRunning,
  meteorActive, meteorTimer, lastMeteorCheck,
  laserDefenderBonus,                               \* localStorage bonus
  difficultyScreen, gameOverEl,                     \* DOM style.display
  finalAccuracy,                                    \* DOM finalAccuracy, in %
  konamiIdx, dotSeq,                                \* easter-egg trackers
  konamiFound, hackFound,                           \* localStorage flags
  leaderboard,                                      \* localStorage scores
  timers,                                           \* pending setTimeout/setInterval
  now,                                              \* Date.now()
  pendingLoops,                                     \* queued gameLoop callbacks
  pendingIdle,                                      \* queued drawIdleBackground callbacks
  op,            \* history: the handler that ran last
  spawned,       \* history: number of enemies spawned since page load
  scored,        \* history: ids of the enemies scored, in order
  lastKills,     \* history: <<id, type, y>> of the enemies scored by the last handler
  lastRams,      \* history: ids of the enemies that hit the player in the last handler
  prevCreate,    \* history: Date.now() of the latest bullet creation, -1 if none
  minGap,        \* history: least gap between two consecutive bullet creations
  lastReward,    \* history: the easter-egg reward granted by the last handler
  banked,        \* history: rewards granted outside a game since the last start
  saved,         \* history: the bag of all scores passed to saveScore()
  pausedAt,      \* history: Date.now() of the pause in effect or just ended,
                 \*          -1 once update() has run again or after a reset
  atEnd,         \* history: << score, lives, enemiesKilled, shotsHit, waveNumber >>
                 \*          at the first endGame() of the run, << >> before it
  lastSpawn,     \* history: the frame counter at the latest spawnEnemy() of the
                 \*          run, -1 before the first
  showerAt,      \* history: elapsedTime when the meteor shower in progress
                 \*          began, -1 when none is in progress
  runSaves,      \* history: saveScore() calls since the latest startGame()
  typed,         \* history: how many of the latest keydowns are the start of
                 \*          the Konami code, the longest such count
  arg, res       \* arguments and result of a function applied on its own

\* the variables of the game session
progVars == << player, bullets, enemies, particles, meteors, score, lives, keys,
               gameRunning, gamePaused, gameStarted, frame, waveNumber,
               killsThisWave, shotsFired, shotsHit, enemiesKilled, startTime,
               elapsedTime, difficulty, enemySpawnRate, enemySpeedMult,
               lastShot, idleRunning, meteorActive, meteorTimer,
               lastMeteorCheck, laserDefenderBonus, difficultyScreen,
               gameOverEl, finalAccuracy, now, pendingLoops >>

vars == << player, bullets, enemies, particles, meteors, score, lives, keys,
           gameRunning, gamePaused, gameStarted, frame, waveNumber,
           killsThisWave, shotsFired, shotsHit, enemiesKilled, startTime,
           elapsedTime, difficulty, enemySpawnRate, enemySpeedMult, lastShot,
           idleRunning, meteorActive, meteorTimer, lastMeteorCheck,
           laserDefenderBonus, difficultyScreen, gameOverEl, finalAccuracy,
           konamiIdx, dotSeq, konamiFound, hackFound, leaderboard, timers,
           now, pendingLoops, pendingIdle, op, spawned, scored, lastKills,
           lastRams,
           prevCreate, minGap,
           lastReward, banked, saved, pausedAt, atEnd,
           lastSpawn, showerAt, runSaves, typed, arg, res >>

----------------------------------------------------------------------------
(* Program constants *)

CanvasW         == 600
PlayerW         == 48
PlayerH         == 32
PlayerY         == 720
PlayerStartX    == 275
PlayerMaxX      == 552
BulletW         == 8
BulletH         == 16
BulletSpeed     == 14
BulletCullY     == -20
MuzzleDX        == 24
FireInterval    == 150
EnemySize       == 48
EnemySpawnY     == -50
EnemyHealth     == 2
EnemyExitY      == 850
KILLS_PER_WAVE  == 8
MaxWaveBonus    == 9
SpawnFloor      == 20
SpawnStep       == 3
SpeedStep       == 8
BoomCount       == 12
ParticleLife    == 25
MeteorSize      == 16
MeteorSpawnY    == -20
MeteorExitY     == 820
MeteorEvery     == 8
MeteorSpawnMs   == 5000
MeteorEndMs     == 6000
MeteorGraceMs   == 10000
MeteorCheckGap  == 60
MeteorKillPts   == 5
MeteorBonus     == 50
ResetLives      == 3
ResetSpeed      == 6
KonamiReward    == 1000
HackReward      == 500
HackLines       == 5
HackPeriod      == 350
DotTimeout      == 3000
SaveDelay       == 600
BoardMax        == 20

(* Bounds of the model *)

T0        == 1000    \* Date.now() at page load
MaxNow    == 1200   \* Date.now() horizon of Spec
MaxLoops  == 2      \* queued gameLoop callbacks
MaxIdle   == 2      \* queued drawIdleBackground callbacks
MoveFrames  == 60   \* frames of a run of SpecMove
MovePeriod  == 14   \* SpecMove: key events arrive every MovePeriod frames
HitFrames   == 145  \* frames of a run of SpecHit
HitNow      == 17000 \* Date.now() horizon of SpecHit
HitPeriod   == 24   \* SpecHit: input events arrive every HitPeriod frames
PauseFrame  == 100  \* SpecFire: the frame in which the pause key is worked
TwoFrames   == 285  \* frames of a run of SpecTwo
KillFrames  == 80   \* frames of a run of SpecKill
FireFrom    == 40   \* SpecKill: the fire key is worked in frames
FireTo      == 47   \*           FireFrom..FireTo
WaveFrames  == 5400 \* frames of a run of SpecWave
StallFrames == 3    \* display frames explored while a started game stands still
NoGap     == 999999 \* minGap before two bullets exist
MaxShots  == 40     \* SpecAccuracy: shotsFired lies in 0..MaxShots
GridMax   == 3      \* SpecCollide: rectangle corners lie in 0..GridMax
BonusNow  == 4500   \* SpecBonus: the clock stops at BonusNow
MaxReward == 2000   \* SpecBonus: no key is pressed once score or bank hold MaxReward
SaveNow   == 17000  \* SpecSave: the clock stops at SaveNow
MaxSaves  == 22     \* SpecBoard: at most MaxSaves scores are saved
SlowDt    == 150    \* SpecSlow: ms between two display frames
MeteorDt  == 200    \* SpecMeteor: ms between two display frames
MeteorFrames == 160 \* SpecMeteor: frames of a run
ShowerFrom == 62    \* SpecMeteor: the fire key is worked in frames
ShowerTo  == 66     \*             ShowerFrom..ShowerTo
RamEarly  == 100    \* SpecRam: the canvas is clicked in frames RamEarly..RamEarly+1
RamLate   == 139    \*          and in frames RamLate..RamLate+4
FlyFrom   == 58     \* SpecFly: the canvas is clicked in frames
FlyTo     == 63     \*          FlyFrom..FlyTo
FlyPause  == 70     \* SpecFly: the pause key is pressed in frame FlyPause
FlyFrames == 125    \* SpecFly: frames of a run
MaxClicks == 2      \* clicks on the save button of one game-over overlay
ShowerFrames == 100 \* SpecShower: frames of a run
PauseDt   == 1000   \* SpecShower: ms between two display frames looked at while paused
ShowerNow == 27000  \* SpecShower: Date.now() horizon of the paused frames
MaxSide   == 2      \* SpecCollide: rectangle sides lie in 1..MaxSide

Difficulties == {"easy", "normal", "hard"}
KONAMI ==
  << "ArrowUp", "ArrowUp", "ArrowDown", "ArrowDown", "ArrowLeft",
     "ArrowRight", "ArrowLeft", "ArrowRight", "b", "a" >>
DOT_ORDER    == << "dot-red", "dot-yellow", "dot-green" >>
PolledKeys   == {"ArrowLeft", "ArrowRight", "a", "d", " "}
PauseKeys    == {"Escape", "p", "P"}
Types        == {"normal", "fast"}

Max(a, b) == IF a >= b THEN a ELSE b
Min(a, b) == IF a <= b THEN a ELSE b

----------------------------------------------------------------------------
(* Geometry *)

Rect(x, y, w, h) == [x |-> x, y |-> y, w |-> w, h |-> h]
BulletRect(b)    == Rect(b.x, b.y, BulletW, BulletH)
EnemyRect(e)     == Rect(e.x, e.y, EnemySize, EnemySize)
MeteorRect(m)    == Rect(m.x, m.y, MeteorSize, MeteorSize)

\* mutant: rectangles that touch on a vertical edge collide
collides_touching(a, b) ==
  /\ a.x <= b.x + b.w
  /\ a.x + a.w >= b.x
  /\ a.y < b.y + b.h
  /\ a.y + a.h > b.y

collides(a, b) ==
  /\ a.x < b.x + b.w
  /\ a.x + a.w > b.x
  /\ a.y < b.y + b.h
  /\ a.y + a.h > b.y

----------------------------------------------------------------------------
(* The session as one record, for the sequential code of the handlers *)

St ==
  [ player |-> player, bullets |-> bullets, enemies |-> enemies,
    particles |-> particles, meteors |-> meteors, score |-> score,
    lives |-> lives, keys |-> keys, gameRunning |-> gameRunning,
    gamePaused |-> gamePaused, gameStarted |-> gameStarted, frame |-> frame,
    waveNumber |-> waveNumber, killsThisWave |-> killsThisWave,
    shotsFired |-> shotsFired, shotsHit |-> shotsHit,
    enemiesKilled |-> enemiesKilled, startTime |-> startTime,
    elapsedTime |-> elapsedTime, difficulty |-> difficulty,
    enemySpawnRate |-> enemySpawnRate, enemySpeedMult |-> enemySpeedMult,
    lastShot |-> lastShot, idleRunning |-> idleRunning,
    meteorActive |-> meteorActive, meteorTimer |-> meteorTimer,
    lastMeteorCheck |-> lastMeteorCheck,
    laserDefenderBonus |-> laserDefenderBonus,
    difficultyScreen |-> difficultyScreen, gameOverEl |-> gameOverEl,
    finalAccuracy |-> finalAccuracy, konamiIdx |-> konamiIdx,
    dotSeq |-> dotSeq, konamiFound |-> konamiFound, hackFound |-> hackFound,
    leaderboard |-> leaderboard, timers |-> timers,
    lastReward |-> lastReward, banked |-> banked, saved |-> saved,
    now |-> now, pendingLoops |-> pendingLoops,
    pendingIdle |-> pendingIdle, op |-> op,
    spawned |-> spawned, scored |-> scored, lastKills |-> lastKills,
    lastRams |-> lastRams,
    prevCreate |-> prevCreate, minGap |-> minGap, pausedAt |-> pausedAt,
    atEnd |-> atEnd, lastSpawn |-> lastSpawn, runSaves |-> runSaves,
    showerAt |-> showerAt, typed |-> typed,
    arg |-> arg, res |-> res ]

Set(r) ==
  /\ player' = r.player /\ bullets' = r.bullets /\ enemies' = r.enemies
  /\ particles' = r.particles /\ meteors' = r.meteors /\ score' = r.score
  /\ lives' = r.lives /\ keys' = r.keys /\ gameRunning' = r.gameRunning
  /\ gamePaused' = r.gamePaused /\ gameStarted' = r.gameStarted
  /\ frame' = r.frame /\ waveNumber' = r.waveNumber
  /\ killsThisWave' = r.killsThisWave /\ shotsFired' = r.shotsFired
  /\ shotsHit' = r.shotsHit /\ enemiesKilled' = r.enemiesKilled
  /\ startTime' = r.startTime /\ elapsedTime' = r.elapsedTime
  /\ difficulty' = r.difficulty /\ enemySpawnRate' = r.enemySpawnRate
  /\ enemySpeedMult' = r.enemySpeedMult /\ lastShot' = r.lastShot
  /\ idleRunning' = r.idleRunning /\ meteorActive' = r.meteorActive
  /\ meteorTimer' = r.meteorTimer /\ lastMeteorCheck' = r.lastMeteorCheck
  /\ laserDefenderBonus' = r.laserDefenderBonus
  /\ difficultyScreen' = r.difficultyScreen /\ gameOverEl' = r.gameOverEl
  /\ finalAccuracy' = r.finalAccuracy
  /\ konamiIdx' = r.konamiIdx /\ dotSeq' = r.dotSeq
  /\ konamiFound' = r.konamiFound /\ hackFound' = r.hackFound
  /\ leaderboard' = r.leaderboard /\ timers' = r.timers
  /\ lastReward' = r.lastReward /\ banked' = r.banked /\ saved' = r.saved
  /\ now' = r.now /\ pendingLoops' = r.pendingLoops
  /\ pendingIdle' = r.pendingIdle /\ op' = r.op
  /\ spawned' = r.spawned /\ scored' = r.scored /\ lastKills' = r.lastKills
  /\ lastRams' = r.lastRams
  /\ prevCreate' = r.prevCreate /\ minGap' = r.minGap
  /\ pausedAt' = r.pausedAt /\ runSaves' = r.runSaves /\ typed' = r.typed
  /\ atEnd' = r.atEnd /\ lastSpawn' = r.lastSpawn /\ showerAt' = r.showerAt
  /\ arg' = r.arg /\ res' = r.res

----------------------------------------------------------------------------
(* Entities *)

Bullet(x, y) == [x |-> x, y |-> y, dead |-> FALSE]

Enemy(id, x, speed, type) ==
  [id |-> id, x |-> x, y |-> EnemySpawnY, speed |-> speed,
   health |-> EnemyHealth, type |-> type, dead |-> FALSE]

Meteor(x, speed) ==
  [x |-> x, y |-> MeteorSpawnY, speed |-> speed, health |-> 1, dead |-> FALSE]

\* y and vy of a particle are in fifths of a pixel (gravity is 0.2 per frame);
\* the velocity draw (Math.random() - 0.5) * 8 is taken at Math.random() = 0.5
Particle(x, y, color) ==
  [x |-> x, y |-> 5 * y, vx |-> 0, vy |-> 0, life |-> ParticleLife,
   color |-> color]

RECURSIVE Burst(_, _, _, _)
Burst(n, x, y, color) ==
  IF n = 0 THEN << >> ELSE << Particle(x, y, color) >> \o Burst(n - 1, x, y, color)

boom(s, x, y, color) ==
  [s EXCEPT !.particles = @ \o Burst(BoomCount, x, y, color)]

PlayerRect(s) == Rect(s.player.x, s.player.y, s.player.w, s.player.h)

----------------------------------------------------------------------------
(* shoot() *)

\* mutant: shoot() does not test gamePaused
canShoot_whilePaused(s) == s.gameRunning

canShoot(s) == s.gameRunning /\ ~s.gamePaused

\* mutant: a 100 ms interval
rateLimited_short(t, last) == t - last < 100

rateLimited(t, last) == t - last < FireInterval

shoot(s) ==
  IF ~canShoot(s) THEN s
  ELSE IF rateLimited(s.now, s.lastShot) THEN s
  ELSE [s EXCEPT
          !.lastShot   = s.now,
          !.bullets    = Append(@, Bullet(s.player.x + MuzzleDX, s.player.y)),
          !.shotsFired = @ + 1,
          !.prevCreate = s.now,
          !.minGap     = IF s.prevCreate = -1 THEN @
                         ELSE Min(@, s.now - s.prevCreate)]

----------------------------------------------------------------------------
(* Number arithmetic: IEEE-754 binary64, round to nearest, ties to even.    *)
(* A positive double is [m, e]: m its 53 significand bits, most significant *)
(* first, e the binary exponent of m[1].                                    *)

MantBits == 53
LimbBits == 16      \* a significand is multiplied in pieces of LimbBits bits

Reverse(q) == [i \in 1..Len(q) |-> q[Len(q) + 1 - i]]

RECURSIVE Pow2(_)
Pow2(j) == IF j = 0 THEN 1 ELSE 2 * Pow2(j - 1)

\* bit j (of weight 2^j) of the natural number v
Bit(v, j) == (v \div Pow2(j)) % 2

RECURSIVE BitLen(_)
BitLen(v) == IF v = 0 THEN 0 ELSE 1 + BitLen(v \div 2)

RECURSIVE BitsVal(_)
\* the integer written by the bits q, most significant first
BitsVal(q) ==
  IF q = << >> THEN 0 ELSE 2 * BitsVal(SubSeq(q, 1, Len(q) - 1)) + q[Len(q)]

RECURSIVE Pow2Mod(_, _)
\* 2^i mod f
Pow2Mod(i, f) ==
  IF i = 0 THEN 1 % f
  ELSE IF i % 2 = 0 THEN (Pow2Mod(i \div 2, f) * Pow2Mod(i \div 2, f)) % f
  ELSE (2 * Pow2Mod(i - 1, f)) % f

\* the remainder of long division after t bits of h/f: (h * 2^t) mod f
DivRem(h, f, t) == (h * Pow2Mod(t, f)) % f

\* bit t (t = 1 is the weight 1/2) of the binary expansion of h/f, h < f
DivBit(h, f, t) == IF 2 * DivRem(h, f, t - 1) >= f THEN 1 ELSE 0

RECURSIVE LeadZeros(_, _)
\* the zeros before the first 1 in the binary expansion of r/f, 0 < r < f
LeadZeros(r, f) == IF 2 * r >= f THEN 0 ELSE 1 + LeadZeros(2 * r, f)

\* q plus one; one bit longer when the carry runs out at the top
IncBits(q) ==
  LET zeros == {i \in 1..Len(q) : q[i] = 0}
  IN  IF zeros = {} THEN << 1 >> \o [i \in 1..Len(q) |-> 0]
      ELSE LET j == CHOOSE i \in zeros : \A k \in zeros : k <= i
           IN  [i \in 1..Len(q) |-> IF i < j THEN q[i]
                                    ELSE IF i = j THEN 1 ELSE 0]

\* the double of significand q and exponent e, rounded up by one unit in the
\* last place if up
RoundBits(q, e, up) ==
  IF ~up THEN [m |-> q, e |-> e]
  ELSE LET r == IncBits(q)
       IN  IF Len(r) > Len(q) THEN [m |-> SubSeq(r, 1, Len(q)), e |-> e + 1]
           ELSE [m |-> r, e |-> e]

\* the double h / f, 0 < h <= f
fdiv(h, f) ==
  IF h = f THEN [m |-> [i \in 1..MantBits |-> IF i = 1 THEN 1 ELSE 0], e |-> 0]
  ELSE LET z   == LeadZeros(h, f)
           q   == [i \in 1..MantBits |-> DivBit(h, f, z + i)]
           rem == DivRem(h, f, z + MantBits)
           up  == 2 * rem > f \/ (2 * rem = f /\ q[MantBits] = 1)
       IN  RoundBits(q, -(z + 1), up)

\* piece k (0 the least significant) of the significand m, as an integer
Limb(m, k) ==
  BitsVal(SubSeq(m, Max(1, MantBits + 1 - LimbBits * (k + 1)),
                 MantBits - LimbBits * k))

\* the double d * 100
fmul100(d) ==
  LET p0   == Limb(d.m, 0) * 100
      p1   == Limb(d.m, 1) * 100 + p0 \div Pow2(LimbBits)
      p2   == Limb(d.m, 2) * 100 + p1 \div Pow2(LimbBits)
      p3   == Limb(d.m, 3) * 100 + p2 \div Pow2(LimbBits)
      L    == 3 * LimbBits + BitLen(p3)
      \* the product, least significant bit first
      prod == [i \in 1..L |->
                 IF i <= LimbBits THEN Bit(p0, i - 1)
                 ELSE IF i <= 2 * LimbBits THEN Bit(p1, i - 1 - LimbBits)
                 ELSE IF i <= 3 * LimbBits THEN Bit(p2, i - 1 - 2 * LimbBits)
                 ELSE Bit(p3, i - 1 - 3 * LimbBits)]
      k      == L - MantBits
      top    == Reverse(SubSeq(prod, k + 1, L))
      sticky == \E i \in 1..(k - 1) : prod[i] = 1
      up     == prod[k] = 1 /\ (sticky \/ top[MantBits] = 1)
  IN  RoundBits(top, d.e + k, up)

\* Math.round of a positive double: the nearest integer, a tie goes up
MathRound(d) ==
  IF d.e < -1 THEN 0
  ELSE IF d.e = -1 THEN 1
  ELSE BitsVal(SubSeq(d.m, 1, d.e + 1)) + d.m[d.e + 2]

\* shotsFired > 0 ? Math.round((shotsHit / shotsFired) * 100) : 0
acc(hit, fired) ==
  IF fired > 0
  THEN IF hit = 0 THEN 0 ELSE MathRound(fmul100(fdiv(hit, fired)))
  ELSE 0

----------------------------------------------------------------------------
(* endGame() *)

\* the figures of a run that the game-over overlay reports
statsOf(s) ==
  << s.score, s.lives, s.enemiesKilled, s.shotsHit, s.waveNumber >>

\* mutant: endGame() leaves gameRunning set
endGame_stillRunning(s) ==
  [s EXCEPT !.elapsedTime = s.now - s.startTime, !.gameOverEl = "block",
            !.finalAccuracy = acc(s.shotsHit, s.shotsFired),
            !.atEnd = IF @ = << >> THEN statsOf(s) ELSE @]

endGame(s) ==
  [s EXCEPT !.gameRunning   = FALSE,
            !.elapsedTime   = s.now - s.startTime,
            !.finalAccuracy = acc(s.shotsHit, s.shotsFired),
            !.gameOverEl    = "block",
            !.atEnd         = IF @ = << >> THEN statsOf(s) ELSE @]

----------------------------------------------------------------------------
(* Difficulty tables *)

\* mutant: every difficulty starts with 3 lives
StartLives_three(d) == 3
StartLives(d)   == CASE d = "easy" -> 5 [] d = "normal" -> 3 [] d = "hard" -> 1
StartRate(d)    == CASE d = "easy" -> 80 [] d = "normal" -> 60 [] d = "hard" -> 40
StartMult(d)    == CASE d = "easy" -> 70 [] d = "normal" -> 100 [] d = "hard" -> 150
StartSpeed(d)   == CASE d = "easy" -> 7 [] d = "normal" -> 6 [] d = "hard" -> 5

\* ({ easy: 80, hard: 40 }[difficulty] || 60) and ({ easy: 0.7, hard: 1.5 }[difficulty] || 1)
WaveRateBase(d) == IF d = "easy" THEN 80 ELSE IF d = "hard" THEN 40 ELSE 60
WaveMultBase(d) == IF d = "easy" THEN 70 ELSE IF d = "hard" THEN 150 ELSE 100

\* mutant: the wave bonus is not capped
waveBonus_uncapped(w) == w - 1
waveBonus(w)        == Min(w - 1, MaxWaveBonus)
\* mutant: the spawn interval has no floor
waveSpawnRate_noFloor(d, w) == WaveRateBase(d) - waveBonus(w) * SpawnStep
waveSpawnRate(d, w) == Max(SpawnFloor, WaveRateBase(d) - waveBonus(w) * SpawnStep)
waveSpeedMult(d, w) == WaveMultBase(d) + waveBonus(w) * SpeedStep

\* mutant: every kill is worth 10
killValue_flat(type) == 10

killValue(type) == IF type = "fast" THEN 20 ELSE 10

\* mutant: the threshold test is strict
waveDue_late(k) == k > KILLS_PER_WAVE

waveDue(k) == k >= KILLS_PER_WAVE

\* mutant: the wave advances without clearing the kills of the wave
advanceWave_keepsKills(s) ==
  [s EXCEPT !.waveNumber     = @ + 1,
            !.enemySpawnRate = waveSpawnRate(s.difficulty, s.waveNumber + 1),
            !.enemySpeedMult = waveSpeedMult(s.difficulty, s.waveNumber + 1)]

advanceWave(s) ==
  [s EXCEPT !.killsThisWave  = 0,
            !.waveNumber     = @ + 1,
            !.enemySpawnRate = waveSpawnRate(s.difficulty, s.waveNumber + 1),
            !.enemySpeedMult = waveSpeedMult(s.difficulty, s.waveNumber + 1)]

----------------------------------------------------------------------------
(* update(): the enemy loop *)

spawnEnemy(s, d) ==
  [s EXCEPT !.enemies = Append(@, Enemy(s.spawned + 1, d.sx, d.sp, d.ty)),
            !.spawned = @ + 1, !.lastSpawn = s.frame]

\* mutant: the bullet that hits is not marked consumed
hitEnemy_keepsBullet(s, ei, bi) ==
  [s EXCEPT !.shotsHit = @ + 1, !.enemies[ei].health = @ - 1]

hitEnemy(s, ei, bi) ==
  [s EXCEPT !.bullets[bi].dead   = TRUE,
            !.shotsHit           = @ + 1,
            !.enemies[ei].health = @ - 1]

killEnemy(s, ei) ==
  LET e  == s.enemies[ei]
      s1 == boom(s, e.x + 24, e.y + 24, "particle")
      s2 == [s1 EXCEPT !.score         = @ + killValue(e.type),
                       !.enemiesKilled = @ + 1,
                       !.killsThisWave = @ + 1,
                       !.enemies[ei].dead = TRUE,
                       !.scored        = Append(@, e.id),
                       !.lastKills     = Append(@, << e.id, e.type, e.y >>)]
  IN  IF waveDue(s2.killsThisWave) THEN advanceWave(s2) ELSE s2

RECURSIVE BulletLoop(_, _, _)
\* for (bi = bullets.length - 1; bi >= 0; bi--): sequences are 1-based here
BulletLoop(s, ei, bi) ==
  IF bi < 1 THEN s
  ELSE IF s.bullets[bi].dead THEN BulletLoop(s, ei, bi - 1)
  ELSE IF ~collides(BulletRect(s.bullets[bi]), EnemyRect(s.enemies[ei]))
       THEN BulletLoop(s, ei, bi - 1)
  ELSE LET s1 == hitEnemy(s, ei, bi)
       IN  IF s1.enemies[ei].health <= 0
           THEN killEnemy(s1, ei)             \* break
           ELSE BulletLoop(s1, ei, bi - 1)

\* mutant: the player is hit whether or not a bullet has killed the enemy
playerHit_evenDead(s, ei) ==
  IF collides(EnemyRect(s.enemies[ei]), PlayerRect(s))
  THEN LET s1 == boom(s, s.player.x + 24, s.player.y + 16, "#f5e6a3")
           s2 == [s1 EXCEPT !.lives = @ - 1, !.enemies[ei].dead = TRUE,
                            !.lastRams = Append(@, s.enemies[ei].id)]
       IN  IF s2.lives <= 0 THEN endGame(s2) ELSE s2
  ELSE s

playerHit(s, ei) ==
  IF ~s.enemies[ei].dead /\ collides(EnemyRect(s.enemies[ei]), PlayerRect(s))
  THEN LET s1 == boom(s, s.player.x + 24, s.player.y + 16, "#f5e6a3")
           s2 == [s1 EXCEPT !.lives = @ - 1, !.enemies[ei].dead = TRUE,
                            !.lastRams = Append(@, s.enemies[ei].id)]
       IN  IF s2.lives <= 0 THEN endGame(s2) ELSE s2
  ELSE s

RECURSIVE EnemyLoop(_, _)
EnemyLoop(s, ei) ==
  IF ei > Len(s.enemies) THEN s
  ELSE LET s1 == [s EXCEPT !.enemies[ei].y = @ + s.enemies[ei].speed]
           s2 == BulletLoop(s1, ei, Len(s1.bullets))
           s3 == playerHit(s2, ei)
       IN  EnemyLoop(s3, ei + 1)

----------------------------------------------------------------------------
(* triggerMeteorShower(), spawnMeteor(), updateMeteors() *)

triggerMeteorShower(s) ==
  IF s.meteorActive THEN s
  ELSE [s EXCEPT !.meteorActive = TRUE, !.meteorTimer = s.now,
                 !.showerAt = s.elapsedTime]

spawnMeteor(s, d) == [s EXCEPT !.meteors = Append(@, Meteor(d.mx, d.msp))]

\* mutant: the bullet that hits a meteor is not marked consumed
hitMeteor_keepsBullet(s, mi, bi) ==
  LET s1 == [s EXCEPT !.shotsHit           = @ + 1,
                      !.meteors[mi].health = @ - 1]
      m  == s1.meteors[mi]
  IN  IF m.health <= 0
      THEN [boom(s1, m.x + 8, m.y + 8, "#ff6633")
              EXCEPT !.score = @ + MeteorKillPts, !.meteors[mi].dead = TRUE]
      ELSE s1

hitMeteor(s, mi, bi) ==
  LET s1 == [s EXCEPT !.bullets[bi].dead   = TRUE,
                      !.shotsHit           = @ + 1,
                      !.meteors[mi].health = @ - 1]
      m  == s1.meteors[mi]
  IN  IF m.health <= 0
      THEN [boom(s1, m.x + 8, m.y + 8, "#ff6633")
              EXCEPT !.score = @ + MeteorKillPts, !.meteors[mi].dead = TRUE]
      ELSE s1

RECURSIVE MeteorBulletLoop(_, _, _)
MeteorBulletLoop(s, mi, bi) ==
  IF bi < 1 THEN s
  ELSE IF s.bullets[bi].dead THEN MeteorBulletLoop(s, mi, bi - 1)
  ELSE IF ~collides(BulletRect(s.bullets[bi]), MeteorRect(s.meteors[mi]))
       THEN MeteorBulletLoop(s, mi, bi - 1)
  ELSE LET s1 == hitMeteor(s, mi, bi)
       IN  IF s1.meteors[mi].dead THEN s1     \* break
           ELSE MeteorBulletLoop(s1, mi, bi - 1)

meteorPlayerHit(s, mi) ==
  IF ~s.meteors[mi].dead /\ collides(MeteorRect(s.meteors[mi]), PlayerRect(s))
  THEN LET s1 == boom(s, s.player.x + 24, s.player.y + 16, "#ff6633")
           s2 == [s1 EXCEPT !.lives = @ - 1, !.meteors[mi].dead = TRUE]
       IN  IF s2.lives <= 0 THEN endGame(s2) ELSE s2
  ELSE s

RECURSIVE MeteorLoop(_, _)
\* for (mi = meteors.length - 1; mi >= 0; mi--)
MeteorLoop(s, mi) ==
  IF mi < 1 THEN s
  ELSE LET s1 == [s EXCEPT !.meteors[mi].y = @ + s.meteors[mi].speed]
           s2 == MeteorBulletLoop(s1, mi, Len(s1.bullets))
           s3 == meteorPlayerHit(s2, mi)
           s4 == IF s3.meteors[mi].y > MeteorExitY
                 THEN [s3 EXCEPT !.meteors[mi].dead = TRUE] ELSE s3
       IN  MeteorLoop(s4, mi - 1)

meteorAlive(m) == ~m.dead

updateMeteors(s, d) ==
  IF ~s.meteorActive THEN s
  ELSE LET elapsed == s.now - s.meteorTimer
           s1 == IF elapsed < MeteorSpawnMs /\ s.frame % MeteorEvery = 0
                 THEN spawnMeteor(s, d) ELSE s
           s2 == IF elapsed > MeteorEndMs /\ Len(s1.meteors) = 0
                 THEN [s1 EXCEPT !.meteorActive = FALSE,
                                 !.score = @ + MeteorBonus,
                                 !.showerAt = -1]
                 ELSE s1
           s3 == MeteorLoop(s2, Len(s2.meteors))
       IN  [s3 EXCEPT !.meteors = SelectSeq(@, meteorAlive)]

----------------------------------------------------------------------------
(* update() *)

\* mutant: update() does not test gamePaused
canUpdate_whilePaused(s) == s.gameRunning

canUpdate(s) == s.gameRunning /\ ~s.gamePaused

moveLeft(x, speed)  == Max(0, x - speed)
\* mutant: the right edge is not clamped
moveRight_unclamped(x, speed) == x + speed
moveRight(x, speed) == Min(PlayerMaxX, x + speed)

stepInput(s) ==
  LET s1 == IF s.keys["ArrowLeft"] \/ s.keys["a"]
            THEN [s EXCEPT !.player.x = moveLeft(@, s.player.speed)] ELSE s
      s2 == IF s.keys["ArrowRight"] \/ s.keys["d"]
            THEN [s1 EXCEPT !.player.x = moveRight(@, s1.player.speed)] ELSE s1
  IN  IF s.keys[" "] THEN shoot(s2) ELSE s2

\* mutant: no bullet is culled at the top
bulletOnScreen_always(b) == TRUE
bulletOnScreen(b) == b.y > BulletCullY
bulletLive(b)     == ~b.dead

stepBullets(s) ==
  LET moved == [i \in 1..Len(s.bullets) |->
                  [s.bullets[i] EXCEPT !.y = @ - BulletSpeed]]
  IN  [s EXCEPT !.bullets = SelectSeq(moved, bulletOnScreen)]

\* least and greatest whole speeds in [2*mult/100, 5*mult/100)
SpeedLo(mult) == (2 * mult + 99) \div 100
SpeedHi(mult) == ((5 * mult + 99) \div 100) - 1
\* the speed for draw rank u: (2 + Math.random() * 3) * enemySpeedMult
speedOf(u, mult) == Min(SpeedLo(mult) + u, SpeedHi(mult))

\* mutant: the spawn falls one frame after the multiple
spawnDue_late(f, rate) == f % rate = 1

spawnDue(f, rate) == f % rate = 0

stepSpawn(s, d) ==
  IF spawnDue(s.frame, s.enemySpawnRate)
  THEN spawnEnemy(s, [d EXCEPT !.sp = speedOf(d.sp, s.enemySpeedMult)])
  ELSE s

enemyKept(e) == ~e.dead /\ e.y < EnemyExitY

\* mutant: a particle is removed one update after its lifetime has run out
stepParticles_keepsSpent(s) ==
  LET moved == [i \in 1..Len(s.particles) |->
                  LET p == s.particles[i]
                  IN  [p EXCEPT !.x = @ + p.vx, !.y = @ + p.vy,
                                !.vy = @ + 1, !.life = @ - 1]]
      alive(p) == p.life >= 0
  IN  [s EXCEPT !.particles = SelectSeq(moved, alive)]

stepParticles(s) ==
  LET moved == [i \in 1..Len(s.particles) |->
                  LET p == s.particles[i]
                  IN  [p EXCEPT !.x = @ + p.vx, !.y = @ + p.vy,
                                !.vy = @ + 1, !.life = @ - 1]]
      alive(p) == p.life > 0
  IN  [s EXCEPT !.particles = SelectSeq(moved, alive)]

stepMeteorCheck(s, d) ==
  IF ~s.meteorActive /\ s.elapsedTime > MeteorGraceMs
     /\ s.frame - s.lastMeteorCheck > MeteorCheckGap
  THEN LET s1 == [s EXCEPT !.lastMeteorCheck = s.frame]
       IN  IF d.met THEN triggerMeteorShower(s1) ELSE s1
  ELSE s

update(s, d) ==
  IF ~canUpdate(s) THEN s
  ELSE LET s1 == [s EXCEPT !.frame = @ + 1,
                           !.elapsedTime = s.now - s.startTime,
                           !.pausedAt = -1]
           s2 == stepInput(s1)
           s3 == stepBullets(s2)
           s4 == stepSpawn(s3, d)
           s5 == EnemyLoop(s4, 1)
           s6 == [s5 EXCEPT !.bullets = SelectSeq(@, bulletLive)]
           s7 == [s6 EXCEPT !.enemies = SelectSeq(@, enemyKept)]
           s8 == stepParticles(s7)
           s9 == stepMeteorCheck(s8, d)
       IN  updateMeteors(s9, d)

\* gameLoop(): update(), draw() (reads only); the callback is queued again
\* by the caller while gameStarted
gameLoop(s, d) == update(s, d)

RECURSIVE RunLoops(_, _, _)
\* the queued gameLoop callbacks of one display frame, in order
RunLoops(s, n, d) == IF n = 0 THEN s ELSE RunLoops(gameLoop(s, d), n - 1, d)

----------------------------------------------------------------------------
(* Lifecycle handlers *)

\* mutant: the pending bonus is applied but stays in the store
applyBonus_keeps(s) ==
  IF s.laserDefenderBonus > 0
  THEN [s EXCEPT !.score = s.laserDefenderBonus]
  ELSE s

\* startGame(): konamiBonus = +(getItem || 0); if > 0, score = konamiBonus and
\* the item is removed (0 stands for the absent item)
applyBonus(s) ==
  IF s.laserDefenderBonus > 0
  THEN [s EXCEPT !.score = s.laserDefenderBonus, !.laserDefenderBonus = 0]
  ELSE s

startGame(s, diff, d) ==
  LET s0 == [s EXCEPT
               !.difficulty       = diff,
               !.lives            = StartLives(diff),
               !.enemySpawnRate   = StartRate(diff),
               !.enemySpeedMult   = StartMult(diff),
               !.player.speed     = StartSpeed(diff),
               !.difficultyScreen = "none",
               !.gameStarted      = TRUE,
               !.gameRunning      = TRUE,
               !.startTime        = s.now,
               !.waveNumber       = 1,
               !.killsThisWave    = 0,
               !.banked           = 0,
               !.runSaves         = 0]
      s1 == [applyBonus(s0) EXCEPT
               !.meteorActive     = FALSE,
               !.meteorTimer      = 0,
               !.meteors          = << >>,
               !.lastMeteorCheck  = 0]
      s2 == gameLoop(s1, d)
  IN  [s2 EXCEPT !.pendingLoops = IF s2.gameStarted THEN @ + 1 ELSE @,
                 !.idleRunning  = FALSE]

\* mutant: resuming restarts the game clock
resumeStart_restart(t, elapsed) == t

resumeStart(t, elapsed) == t - elapsed

\* mutant: the pause flag, once set, stays set
togglePause_sticky(s) ==
  [s EXCEPT !.gamePaused = TRUE, !.elapsedTime = s.now - s.startTime,
            !.pausedAt = s.now]

togglePause(s) ==
  IF ~s.gamePaused
  THEN [s EXCEPT !.gamePaused = TRUE, !.elapsedTime = s.now - s.startTime,
                 !.pausedAt = s.now]
  ELSE [s EXCEPT !.gamePaused = FALSE,
                 !.startTime = resumeStart(s.now, s.elapsedTime)]

\* mutant: the pause key is not guarded by the lifecycle flags
pauseAllowed_always(s) == TRUE

pauseAllowed(s) == s.gameStarted /\ s.gameRunning

\* drawIdleBackground(): returns at once unless idleRunning; otherwise it draws
\* the starfield (reads only) and queues itself for the next display frame
idleDraws(s) == s.idleRunning

\* mutant: the starfield loop is queued only when none is queued yet
drawIdleBackground_once(s) ==
  IF idleDraws(s) /\ s.pendingIdle = 0 THEN [s EXCEPT !.pendingIdle = 1] ELSE s

drawIdleBackground(s) ==
  IF idleDraws(s) THEN [s EXCEPT !.pendingIdle = @ + 1] ELSE s

\* mutant: resetGame() leaves lives as it is
resetGame_keepsLives(s) ==
  drawIdleBackground(
  [s EXCEPT
     !.player = [x |-> PlayerStartX, y |-> PlayerY, w |-> PlayerW,
                 h |-> PlayerH, speed |-> ResetSpeed],
     !.bullets = << >>, !.enemies = << >>, !.particles = << >>,
     !.meteors = << >>, !.score = 0,
     !.gameRunning = FALSE, !.gamePaused = FALSE, !.gameStarted = FALSE,
     !.frame = 0, !.shotsFired = 0, !.shotsHit = 0, !.enemiesKilled = 0,
     !.startTime = 0, !.elapsedTime = 0, !.waveNumber = 1,
     !.killsThisWave = 0, !.meteorActive = FALSE, !.meteorTimer = 0,
     !.lastMeteorCheck = 0, !.gameOverEl = "none",
     !.difficultyScreen = "flex", !.idleRunning = TRUE, !.pausedAt = -1,
     !.atEnd = << >>, !.lastSpawn = -1, !.showerAt = -1])

resetGame(s) ==
  drawIdleBackground(
  [s EXCEPT
     !.player = [x |-> PlayerStartX, y |-> PlayerY, w |-> PlayerW,
                 h |-> PlayerH, speed |-> ResetSpeed],
     !.bullets = << >>, !.enemies = << >>, !.particles = << >>,
     !.meteors = << >>, !.score = 0, !.lives = ResetLives,
     !.gameRunning = FALSE, !.gamePaused = FALSE, !.gameStarted = FALSE,
     !.frame = 0, !.shotsFired = 0, !.shotsHit = 0, !.enemiesKilled = 0,
     !.startTime = 0, !.elapsedTime = 0, !.waveNumber = 1,
     !.killsThisWave = 0, !.meteorActive = FALSE, !.meteorTimer = 0,
     !.lastMeteorCheck = 0, !.gameOverEl = "none",
     !.difficultyScreen = "flex", !.idleRunning = TRUE, !.pausedAt = -1,
     !.atEnd = << >>, !.lastSpawn = -1, !.showerAt = -1])

----------------------------------------------------------------------------
(* Timers: setTimeout / setInterval callbacks that change the state *)

Timer(due, fn, i) == [due |-> due, fn |-> fn, i |-> i]

setTimeout(s, fn, delay) ==
  [s EXCEPT !.timers = Append(@, Timer(s.now + delay, fn, 0))]

RemoveAt(q, i) == SubSeq(q, 1, i - 1) \o SubSeq(q, i + 1, Len(q))

\* the pending timer that fires next: the earliest due, the oldest of those
nextTimer(s) ==
  CHOOSE i \in DOMAIN s.timers :
    \A j \in DOMAIN s.timers :
      \/ s.timers[i].due < s.timers[j].due
      \/ s.timers[i].due = s.timers[j].due /\ i <= j

----------------------------------------------------------------------------
(* Easter eggs *)

\* the reward goes to the live score of an active game, else to the store
gameActive(s) == s.gameStarted /\ s.gameRunning

\* triggerKonami(): the store is set to the reward, not added to
triggerKonami(s) ==
  LET s1 == [s EXCEPT !.konamiFound = TRUE, !.lastReward = KonamiReward]
  IN  IF gameActive(s)
      THEN [s1 EXCEPT !.score = @ + KonamiReward]
      ELSE [s1 EXCEPT !.laserDefenderBonus = KonamiReward,
                      !.banked = @ + KonamiReward]

\* keydown: Konami code detection
konamiKey(s, k) ==
  IF k = KONAMI[s.konamiIdx + 1]
  THEN IF s.konamiIdx + 1 = Len(KONAMI)
       THEN [triggerKonami(s) EXCEPT !.konamiIdx = 0]
       ELSE [s EXCEPT !.konamiIdx = @ + 1]
  ELSE [s EXCEPT !.konamiIdx = 0]

\* the last tick of runHackSequence(): the reward is added to the store
hackDeposit(s) ==
  LET s1 == [s EXCEPT !.hackFound = TRUE, !.lastReward = HackReward]
  IN  IF gameActive(s)
      THEN [s1 EXCEPT !.score = @ + HackReward]
      ELSE [s1 EXCEPT !.laserDefenderBonus = @ + HackReward,
                      !.banked = @ + HackReward]

\* one tick of the interval of runHackSequence(); t is the timer that fired
hackTick(s, t) ==
  IF t.i < HackLines
  THEN [s EXCEPT !.timers = Append(@, Timer(t.due + HackPeriod, "hackTick",
                                            t.i + 1))]
  ELSE hackDeposit(s)

runHackSequence(s) ==
  [s EXCEPT !.timers = Append(@, Timer(s.now + HackPeriod, "hackTick", 0))]

NotDotTimer(t) == t.fn # "dotReset"

dotMatches(q) ==
  Len(q) <= Len(DOT_ORDER) /\ \A i \in DOMAIN q : q[i] = DOT_ORDER[i]

\* click on a terminal dot of class cls
dotClick(s, cls) ==
  LET s1 == [s EXCEPT !.timers = SelectSeq(@, NotDotTimer),
                      !.dotSeq = Append(@, cls)]
      s2 == setTimeout(s1, "dotReset", DotTimeout)
  IN  IF dotMatches(s2.dotSeq)
      THEN IF Len(s2.dotSeq) = Len(DOT_ORDER)
           THEN runHackSequence([s2 EXCEPT !.dotSeq = << >>])
           ELSE s2
      ELSE [s2 EXCEPT !.dotSeq = << >>]

----------------------------------------------------------------------------
(* Leaderboard *)

\* fmtTime(ms): minutes and seconds of "M:SS"
fmtTime(ms) == LET s == ms \div 1000 IN << s \div 60, s % 60 >>

toUpperCase(diff) ==
  CASE diff = "easy"   -> "EASY"
    [] diff = "normal" -> "NORMAL"
    [] diff = "hard"   -> "HARD"
    [] OTHER           -> diff

NoStats ==
  [accuracy |-> 0, enemiesKilled |-> 0, timeSurvived |-> 0,
   difficulty |-> "NORMAL"]

Entry(name, sc, stats) ==
  [name |-> IF name = "" THEN "PILOT" ELSE name, score |-> sc,
   accuracy |-> stats.accuracy, enemiesKilled |-> stats.enemiesKilled,
   timeSurvived |-> stats.timeSurvived, difficulty |-> stats.difficulty]

\* the place of entry i of q after board.sort((a, b) => b.score - a.score),
\* a stable sort
rank(q, i) ==
  Cardinality({ j \in DOMAIN q :
                  \/ q[j].score > q[i].score
                  \/ q[j].score = q[i].score /\ j <= i })

sortBoard(q) ==
  [k \in DOMAIN q |-> q[CHOOSE i \in DOMAIN q : rank(q, i) = k]]

\* mutant: the board is cut before it is sorted
saveScore_cutFirst(board, name, sc, stats) ==
  LET b == Append(board, Entry(name, sc, stats))
  IN  sortBoard(SubSeq(b, 1, IF Len(b) < BoardMax THEN Len(b) ELSE BoardMax))

\* saveScore(name, score, stats): push, sort, splice(20)
saveScore(board, name, sc, stats) ==
  LET b == sortBoard(Append(board, Entry(name, sc, stats)))
  IN  SubSeq(b, 1, IF Len(b) < BoardMax THEN Len(b) ELSE BoardMax)

\* saveAndRestart(); name is the trimmed text of the name field
saveAndRestart(s, name) ==
  LET stats == [accuracy      |-> acc(s.shotsHit, s.shotsFired),
                enemiesKilled |-> s.enemiesKilled,
                timeSurvived  |-> fmtTime(s.elapsedTime),
                difficulty    |-> toUpperCase(s.difficulty)]
      s1 == [s EXCEPT
               !.leaderboard = saveScore(@, name, s.score, stats),
               !.saved = @ (+) SetToBag({s.score}),
               !.runSaves = @ + 1]
  IN  setTimeout(s1, "resetGame", SaveDelay)

----------------------------------------------------------------------------
(* Actions: one per event handler *)

Began(name) ==
  [St EXCEPT !.op = name, !.lastKills = << >>, !.lastRams = << >>,
             !.lastReward = 0]

\* click on a difficulty button of the difficulty screen
StartGame(diff, d) ==
  /\ difficultyScreen = "flex"
  /\ pendingLoops < MaxLoops
  /\ Set(startGame(Began("start"), diff, d))

\* the keydown events: when the latest h of them were the first h keys of the
\* code, the latest n of them and k are the first n + 1 keys of the code
codeTail(h, k, n) ==
  /\ n <= h /\ n < Len(KONAMI)
  /\ SubSeq(SubSeq(KONAMI, 1, h) \o << k >>, h - n + 1, h + 1)
       = SubSeq(KONAMI, 1, n + 1)

\* the longest start of the code that the keydown events end with after k
codePrefix(h, k) ==
  LET fits == {n \in 0 .. h : codeTail(h, k, n)}
  IN  IF fits = {} THEN 0
      ELSE 1 + CHOOSE n \in fits : \A m \in fits : m <= n

\* document keydown
KeyDown(k) ==
  /\ k \in PolledKeys => ~keys[k]
  /\ LET s  == [Began("keydown") EXCEPT !.typed = codePrefix(typed, k)]
         s0 == IF k \in PolledKeys THEN [s EXCEPT !.keys[k] = TRUE] ELSE s
         s1 == konamiKey(s0, k)
     IN  Set(IF k \in PauseKeys /\ pauseAllowed(s1) THEN togglePause(s1) ELSE s1)

\* document keyup
KeyUp(k) ==
  /\ k \in PolledKeys /\ keys[k]
  /\ Set([Began("keyup") EXCEPT !.keys[k] = FALSE])

\* canvas click
Click ==
  LET s == Began("click")
  IN  Set(IF s.gameStarted THEN shoot(s) ELSE s)

\* restartOnly(), or navigation to the game section
Reset ==
  /\ pendingIdle < MaxIdle
  /\ Set(resetGame(Began("reset")))

\* click on a terminal dot
DotClick(cls) == Set(dotClick(Began("dotclick"), cls))

\* click on the save button of the game-over overlay
SaveAndRestart(name) ==
  /\ gameOverEl = "block"
  /\ Set(saveAndRestart(Began("save"), name))

\* the callback of the timer that fires next
fire(s) ==
  LET i  == nextTimer(s)
      t  == s.timers[i]
      s1 == [s EXCEPT !.timers = RemoveAt(@, i)]
  IN  CASE t.fn = "resetGame" -> resetGame(s1)
        [] t.fn = "dotReset"  -> [s1 EXCEPT !.dotSeq = << >>]
        [] t.fn = "hackTick"  -> hackTick(s1, t)

\* a timer that is due fires
Timeout ==
  /\ \E i \in DOMAIN timers : timers[i].due <= now
  /\ Set(fire(Began("timeout")))

\* one display frame: the clock advances and every queued callback runs; a
\* gameLoop queues itself again while gameStarted, a drawIdleBackground while
\* idleRunning
Frame(dt, d) ==
  LET s0 == [Began("frame") EXCEPT !.now = @ + dt]
      s1 == RunLoops(s0, pendingLoops, d)
  IN  Set([s1 EXCEPT !.pendingLoops = IF s1.gameStarted THEN @ ELSE 0,
                     !.pendingIdle  = IF idleDraws(s1) THEN @ ELSE 0])

----------------------------------------------------------------------------
(* Specifications *)

NoKeys == [k \in PolledKeys |-> FALSE]

\* the page after load and the first navigation to the game section
InitGame ==
  /\ player = [x |-> PlayerStartX, y |-> PlayerY, w |-> PlayerW,
               h |-> PlayerH, speed |-> ResetSpeed]
  /\ bullets = << >> /\ enemies = << >> /\ particles = << >>
  /\ meteors = << >> /\ score = 0 /\ lives = ResetLives
  /\ keys = NoKeys
  /\ gameRunning = FALSE /\ gamePaused = FALSE /\ gameStarted = FALSE
  /\ frame = 0 /\ waveNumber = 1 /\ killsThisWave = 0
  /\ shotsFired = 0 /\ shotsHit = 0 /\ enemiesKilled = 0
  /\ startTime = 0 /\ elapsedTime = 0
  /\ difficulty = "none" /\ enemySpawnRate = 0 /\ enemySpeedMult = 0
  /\ lastShot = 0 /\ idleRunning = TRUE
  /\ meteorActive = FALSE /\ meteorTimer = 0 /\ lastMeteorCheck = 0
  /\ laserDefenderBonus = 0
  /\ difficultyScreen = "flex" /\ gameOverEl = "none" /\ finalAccuracy = 0
  /\ konamiIdx = 0 /\ dotSeq = << >> /\ konamiFound = FALSE
  /\ hackFound = FALSE /\ leaderboard = << >> /\ timers = << >>
  /\ lastReward = 0 /\ banked = 0 /\ saved = EmptyBag
  /\ now = T0 /\ pendingLoops = 0 /\ pendingIdle = 1
  /\ op = "init" /\ spawned = 0 /\ scored = << >> /\ lastKills = << >>
  /\ lastRams = << >>
  /\ prevCreate = -1 /\ minGap = NoGap /\ pausedAt = -1 /\ typed = 0
  /\ runSaves = 0 /\ atEnd = << >> /\ lastSpawn = -1 /\ showerAt = -1

Init == InitGame /\ arg = << >> /\ res = << >>

Draw(sx, sp, ty, met, mx, msp) ==
  [sx |-> sx, sp |-> sp, ty |-> ty, met |-> met, mx |-> mx, msp |-> msp]

Idle     == ~gameStarted
Running  == gameStarted /\ gameRunning /\ ~gamePaused
Paused   == gameStarted /\ gameRunning /\ gamePaused
GameOver == gameStarted /\ ~gameRunning

\* Spec: every handler, short runs
SpecKeys  == {"ArrowRight", " ", "p"}
SpecDts   == {50}
SpecDraws == {Draw(275, 0, "normal", FALSE, 275, 6)}

Next ==
  \/ \E diff \in Difficulties, d \in SpecDraws :
       StartGame(diff, d)
  \/ \E k \in SpecKeys : KeyDown(k)
  \/ \E k \in SpecKeys : KeyUp(k)
  \/ Click
  \/ Reset
  \/ \E dt \in SpecDts, d \in SpecDraws : now + dt <= MaxNow /\ Frame(dt, d)

Spec == Init /\ [][Next]_vars

\* the display frames explored: while a started game stands still (paused or
\* over) at most StallFrames of them, in the idle state only those that run a
\* queued gameLoop
FrameExplored(dt) ==
  IF gameStarted
  THEN now + dt - (startTime + elapsedTime) <= StallFrames * dt
  ELSE pendingLoops > 0

\* SpecMove: the player is steered with the four movement keys
MoveKeys  == {"ArrowLeft", "ArrowRight", "a", "d"}
MoveDraws == {Draw(0, 0, "normal", FALSE, 0, 6)}

NextMove ==
  \/ \E diff \in Difficulties, d \in MoveDraws :
       StartGame(diff, d)
  \/ \E k \in MoveKeys : frame % MovePeriod = 1 /\ KeyDown(k)
  \/ \E k \in MoveKeys : frame % MovePeriod = 1 /\ KeyUp(k)
  \/ \E d \in MoveDraws : frame < MoveFrames /\ gameStarted /\ Frame(100, d)

SpecMove == Init /\ [][NextMove]_vars

\* SpecHit: a hard run in which the first enemy comes down on the player,
\* with pause, reset and restart
HitDraws == {Draw(275, 4, "normal", FALSE, 275, 6)}

NextHit ==
  \/ \E d \in HitDraws : StartGame("hard", d)
  \/ (frame % HitPeriod = 0 \/ ~gameRunning) /\ KeyDown("p")
  \/ (frame % HitPeriod = 0 \/ ~gameRunning) /\ Reset
  \/ \E d \in HitDraws :
       /\ frame < HitFrames /\ now + 100 <= HitNow
       /\ FrameExplored(100) /\ Frame(100, d)

SpecHit == Init /\ [][NextHit]_vars

\* SpecFire: the hard run of SpecHit with one pause at frame PauseFrame; the
\* canvas is clicked and the fire key is worked while the game is not running
NextFire ==
  \/ \E d \in HitDraws : StartGame("hard", d)
  \/ frame = PauseFrame /\ KeyDown("p")
  \/ ~(gameStarted /\ gameRunning /\ ~gamePaused) /\ Click
  \/ ~(gameStarted /\ gameRunning /\ ~gamePaused) /\ KeyDown(" ")
  \/ ~(gameStarted /\ gameRunning /\ ~gamePaused) /\ KeyUp(" ")
  \/ ~gameRunning /\ Reset
  \/ \E d \in HitDraws :
       /\ frame < HitFrames /\ now + 100 <= HitNow
       /\ FrameExplored(100) /\ Frame(100, d)

SpecFire == Init /\ [][NextFire]_vars

\* SpecTwo: a hard run without input, enemies in the player's column or in
\* the leftmost column, slowest or at speed rank 3
TwoDraws == {Draw(275, 0, "normal", FALSE, 275, 6),
             Draw(275, 3, "normal", FALSE, 275, 6),
             Draw(0, 0, "normal", FALSE, 275, 6)}

NextTwo ==
  \/ \E d \in TwoDraws : StartGame("hard", d)
  \/ \E d \in TwoDraws :
       frame < TwoFrames /\ FrameExplored(100) /\ Frame(100, d)

SpecTwo == Init /\ [][NextTwo]_vars

\* SpecKill: a hard run, the player fires from the start column at enemies of
\* both types and of the slowest and the fastest speed
KillDraws == {Draw(275, sp, ty, FALSE, 275, 6) : sp \in {0, 4}, ty \in Types}

NextKill ==
  \/ \E d \in KillDraws : StartGame("hard", d)
  \/ frame \in FireFrom..FireTo /\ KeyDown(" ")
  \/ frame \in FireFrom..FireTo /\ KeyUp(" ")
  \/ \E d \in KillDraws :
       frame < KillFrames /\ gameStarted /\ Frame(100, d)

SpecKill == Init /\ [][NextKill]_vars

\* SpecWave: long runs of every difficulty with the fire key held
WaveDraws == {Draw(275, 0, "normal", FALSE, 275, 6)}

NextWave ==
  \/ \E diff \in Difficulties, d \in WaveDraws :
       StartGame(diff, d)
  \/ KeyDown(" ")
  \/ \E d \in WaveDraws :
       frame < WaveFrames /\ gameRunning /\ keys[" "] /\ Frame(100, d)

SpecWave == Init /\ [][NextWave]_vars

\* SpecCollide: collides() applied to every pair of rectangles of a grid
Rects ==
  { Rect(x, y, w, h) : x \in 0..GridMax, y \in 0..GridMax,
                       w \in 1..MaxSide, h \in 1..MaxSide }

InitCollide ==
  InitGame /\ arg \in { << a, b >> : a \in Rects, b \in Rects } /\ res = << >>

Collide ==
  /\ op = "init"
  /\ Set([Began("collides") EXCEPT !.res = collides(arg[1], arg[2])])

NextCollide == Collide

SpecCollide == InitCollide /\ [][NextCollide]_vars

\* SpecAccuracy: the accuracy of every pair shotsHit <= shotsFired
InitAccuracy ==
  /\ InitGame
  /\ arg \in { << h, f >> : h \in 0..MaxShots, f \in 0..MaxShots }
  /\ arg[1] <= arg[2]
  /\ res = << >>

Accuracy ==
  /\ op = "init"
  /\ Set([Began("acc") EXCEPT !.res = acc(arg[1], arg[2])])

NextAccuracy == Accuracy

SpecAccuracy == InitAccuracy /\ [][NextAccuracy]_vars

\* SpecBonus: the Konami code is typed and the terminal dots are clicked
\* before, during and after a normal run whose enemies pass by the player.
\* A key is released before anything else happens, the code is typed
\* between two display frames, the dots are left alone while a hack sequence
\* runs, a due timer fires before the next display frame, and the code is
\* typed only until rewards of MaxReward are held
BonusDraws == {Draw(0, 0, "normal", FALSE, 0, 6)}
BonusKeys  == {KONAMI[konamiIdx + 1], "ArrowDown"}
DotClasses == {DOT_ORDER[Len(dotSeq) + 1], "dot-red"}
TimerDue   == \E i \in DOMAIN timers : timers[i].due <= now
HackRuns   == \E i \in DOMAIN timers : timers[i].fn = "hackTick"
BonusQuiet == keys = NoKeys /\ konamiIdx = 0

NextBonus ==
  \/ \E d \in BonusDraws : BonusQuiet /\ StartGame("normal", d)
  \/ \E k \in BonusKeys :
       keys = NoKeys /\ score < MaxReward /\ banked < MaxReward /\ KeyDown(k)
  \/ \E k \in PolledKeys : KeyUp(k)
  \/ \E c \in DotClasses : BonusQuiet /\ ~HackRuns /\ DotClick(c)
  \/ BonusQuiet /\ Timeout
  \/ BonusQuiet /\ gameStarted /\ Reset
  \/ \E d \in BonusDraws :
       /\ BonusQuiet /\ ~TimerDue /\ now + HackPeriod <= BonusNow
       /\ Frame(HackPeriod, d)

SpecBonus == Init /\ [][NextBonus]_vars

\* SpecSave: the hard run of SpecHit ends, the score is saved, and the game is
\* reset and started again while the deferred reset is pending
SaveNames == {"", "ACE"}

NextSave ==
  \/ \E d \in HitDraws : StartGame("hard", d)
  \/ \E n \in SaveNames : timers = << >> /\ SaveAndRestart(n)
  \/ ~Running /\ Reset
  \/ Timeout
  \/ \E d \in HitDraws :
       /\ now + 100 <= SaveNow
       /\ FrameExplored(100) \/ timers # << >>
       /\ Frame(100, d)

SpecSave == Init /\ [][NextSave]_vars

\* SpecBoard: saveScore() called with scores in any order
BoardScores == {0, 10, 20}

SaveScore(name, sc) ==
  /\ BagCardinality(saved) < MaxSaves
  /\ Set([Began("saveScore") EXCEPT
            !.leaderboard = saveScore(@, name, sc, NoStats),
            !.saved = @ (+) SetToBag({sc})])

NextBoard == \E sc \in BoardScores : SaveScore("", sc)

SpecBoard == Init /\ [][NextBoard]_vars

\* SpecSlow: the run of SpecKill on a display that delivers a frame every
\* SlowDt ms, so that a held fire key fires in every frame
NextSlow ==
  \/ \E d \in KillDraws : StartGame("hard", d)
  \/ frame \in FireFrom..FireTo /\ KeyDown(" ")
  \/ frame \in FireFrom..FireTo /\ KeyUp(" ")
  \/ \E d \in KillDraws :
       frame < KillFrames /\ gameStarted /\ Frame(SlowDt, d)

SpecSlow == Init /\ [][NextSlow]_vars

\* SpecMeteor: a hard run in which every meteor check starts a shower; the
\* meteors fall on the player's column or at the left edge, the enemies on
\* the player's column, and the player fires from the start column
MeteorDraws == {Draw(275, 0, "normal", TRUE, mx, 10) : mx \in {0, 295}}

NextMeteor ==
  \/ \E d \in MeteorDraws : StartGame("hard", d)
  \/ frame \in ShowerFrom..ShowerTo /\ KeyDown(" ")
  \/ frame \in ShowerFrom..ShowerTo /\ KeyUp(" ")
  \/ \E d \in MeteorDraws :
       frame < MeteorFrames /\ FrameExplored(MeteorDt) /\ Frame(MeteorDt, d)

SpecMeteor == Init /\ [][NextMeteor]_vars

\* SpecRam: the hard run of SpecHit; the canvas is clicked while the first
\* enemy is on its way and again when it reaches the player
NextRam ==
  \/ \E d \in HitDraws : StartGame("hard", d)
  \/ (frame \in RamEarly..(RamEarly + 1) \/ frame \in RamLate..(RamLate + 4))
       /\ Click
  \/ \E d \in HitDraws :
       frame < HitFrames /\ FrameExplored(100) /\ Frame(100, d)

SpecRam == Init /\ [][NextRam]_vars

\* SpecFly: a normal run with the enemies on the player's column; the canvas
\* is clicked in a window of frames and the game is paused in one frame, until
\* a pause has shifted the game clock
FlyEnabled == frame < FlyFrames /\ FrameExplored(100)

FlyStep == \E d \in HitDraws : FlyEnabled /\ Frame(100, d)

\* gameLoop is called again by requestAnimationFrame for as long as the game
\* is started, so the display frames are weakly fair: this is WF_vars(FlyStep)
\* written out, FlyStep being enabled exactly when FlyEnabled holds and its
\* steps being those that set op to "frame"
FlyFair == []<>(~FlyEnabled) \/ []<><<op' = "frame">>_vars

NextFly ==
  \/ \E d \in HitDraws : StartGame("normal", d)
  \/ frame \in FlyFrom..FlyTo /\ Click
  \/ frame = FlyPause /\ (gamePaused \/ startTime = T0) /\ KeyDown("p")
  \/ FlyStep

SpecFly == Init /\ [][NextFly]_vars /\ FlyFair

\* SpecKonami: the keys of the code typed in any order on the idle page
KonamiKeys == {KONAMI[i] : i \in DOMAIN KONAMI}

NextKonami ==
  \/ \E k \in KonamiKeys : banked < MaxReward /\ KeyDown(k)
  \/ \E k \in PolledKeys : KeyUp(k)

SpecKonami == Init /\ [][NextKonami]_vars

\* SpecResave: SpecSave with the save button clicked again while the deferred
\* reset is pending
NextResave ==
  \/ \E d \in HitDraws : StartGame("hard", d)
  \/ \E n \in SaveNames : Len(timers) < MaxClicks /\ SaveAndRestart(n)
  \/ ~Running /\ Reset
  \/ Timeout
  \/ \E d \in HitDraws :
       /\ now + 100 <= SaveNow
       /\ FrameExplored(100) \/ timers # << >>
       /\ Frame(100, d)

SpecResave == Init /\ [][NextResave]_vars

\* SpecShower: an easy run left alone, paused and resumed around the start of
\* the meteor shower; the meteors fall beside the player
ShowerDraws == {Draw(275, 0, "normal", TRUE, 0, 10)}

NextShower ==
  \/ \E d \in ShowerDraws : StartGame("easy", d)
  \/ frame \in ShowerFrom..ShowerTo /\ KeyDown("p")
  \/ \E d \in ShowerDraws :
       /\ ~gamePaused /\ frame < ShowerFrames /\ FrameExplored(MeteorDt)
       /\ Frame(MeteorDt, d)
  \/ \E d \in ShowerDraws :
       gamePaused /\ now + PauseDt <= ShowerNow /\ Frame(PauseDt, d)

SpecShower == Init /\ [][NextShower]_vars

----------------------------------------------------------------------------
(* Properties *)


\* the step is a display frame / a display frame that runs exactly one update()
FrameStep  == op' = "frame"
UpdateStep == op' = "frame" /\ pendingLoops = 1 /\ gameRunning /\ ~gamePaused

RECURSIVE SumSeq(_)
SumSeq(q) == IF q = << >> THEN 0 ELSE Head(q) + SumSeq(Tail(q))

\* C1: player.x stays within [0, canvasWidth - playerWidth] in every state,
\* whatever keys are held and whatever the difficulty's player speed.
C1_PlayerInBounds == 0 <= player.x /\ player.x <= CanvasW - PlayerW

C1_Witness ==
  /\ op = "frame" /\ player.speed = 5 /\ player.x = CanvasW - PlayerW
  /\ keys["ArrowLeft"] /\ keys["ArrowRight"]

\* C2: any two bullets ever created are at least 150 ms apart, across
\* pause/resume and across a reset followed by a new start.
C2_FireInterval == minGap >= 150

C2_Witness == minGap = 150 /\ Len(bullets) >= 2

\* C3: gamePaused implies gameRunning and gameRunning implies gameStarted, so
\* exactly one of Idle, Running, Paused, GameOver holds.
C3_OneLifecycle ==
  /\ gamePaused => gameRunning
  /\ gameRunning => gameStarted
  /\ Cardinality({i \in 1..4 : << Idle, Running, Paused, GameOver >>[i]}) = 1

C3_Witness == GameOver /\ op = "keydown"

\* C4: a display frame in Idle, Paused or GameOver changes neither the frame
\* counter, the elapsed time, the entities nor the counters.
C4_InactiveStepNoOp ==
  [][ (FrameStep /\ ~Running) =>
        UNCHANGED << frame, elapsedTime, player, bullets, enemies, particles,
                     meteors, score, lives, waveNumber, killsThisWave,
                     shotsFired, shotsHit, enemiesKilled >> ]_vars

C4_Witness == op = "frame" /\ Paused /\ Len(enemies) > 0

\* C5: the frame in which lives reach 0 leaves the game in GameOver, and no
\* later frame changes score or lives until the reset.
C5_GameOverFreezes ==
  [][ /\ (FrameStep /\ lives > 0 /\ lives' <= 0) => GameOver'
      /\ (FrameStep /\ GameOver) => (score' = score /\ lives' = lives) ]_vars

C5_Witness ==
  /\ GameOver /\ lives = 0 /\ op = "frame"
  /\ now > startTime + elapsedTime

\* C6: lives is never negative.
C6_LivesNonNegative == lives >= 0

\* C7: an enemy loses health only one point per bullet it consumes, and every
\* enemy whose health reaches 0 is scored once and leaves the store.
HealthBefore(id) ==
  IF \E i \in 1..Len(enemies) : enemies[i].id = id
  THEN (CHOOSE e \in {enemies[i] : i \in 1..Len(enemies)} : e.id = id).health
  ELSE 2

C7_HealthLost ==
  LET kept   == [i \in 1..Len(enemies') |->
                   HealthBefore(enemies'[i].id) - enemies'[i].health]
      killed == [k \in 1..Len(lastKills') |-> HealthBefore(lastKills'[k][1])]
  IN  SumSeq(kept) + SumSeq(killed)

C7_BulletsConsumed ==
  LET flying == {i \in 1..Len(bullets) : ~bullets[i].dead /\ bullets[i].y - 14 > -20}
  IN  Cardinality(flying) + (shotsFired' - shotsFired) - Len(bullets')

C7_HealthAndKills ==
  /\ [] /\ \A i \in 1..Len(enemies) :
             /\ enemies[i].health \in 1..2
             /\ ~enemies[i].dead
             /\ \A k \in 1..Len(scored) : scored[k] # enemies[i].id
             /\ \A j \in 1..Len(enemies) : enemies[j].id = enemies[i].id => j = i
        /\ \A j, k \in 1..Len(scored) : scored[j] = scored[k] => j = k
        /\ enemiesKilled = Len(scored)
  /\ [][ UpdateStep =>
           /\ C7_HealthLost = C7_BulletsConsumed
           /\ shotsHit' - shotsHit = C7_BulletsConsumed
           /\ \A i \in 1..Len(enemies') :
                enemies'[i].health <= HealthBefore(enemies'[i].id) ]_vars

C7_Witness ==
  /\ op = "frame" /\ Len(lastKills) = 1 /\ shotsHit = 2 /\ enemiesKilled = 1
  /\ Len(enemies) = 0 /\ Len(bullets) > 0

\* C8: a kill adds 10 (normal) or 20 (fast) to the score and 1 to
\* enemiesKilled, and the killed enemy is gone at the end of the frame.
C8_KillScore ==
  [][ (UpdateStep /\ ~meteorActive /\ ~meteorActive') =>
        LET pts == [k \in 1..Len(lastKills') |->
                      IF lastKills'[k][2] = "fast" THEN 20 ELSE 10]
        IN  /\ score' - score = SumSeq(pts)
            /\ enemiesKilled' - enemiesKilled = Len(lastKills')
            /\ \A k \in 1..Len(lastKills'), i \in 1..Len(enemies') :
                 enemies'[i].id # lastKills'[k][1] ]_vars

C8_Witness ==
  /\ op = "frame" /\ Len(lastKills) = 1 /\ lastKills[1][2] = "fast"
  /\ shotsHit = 2 /\ score = 20 /\ enemiesKilled = 1

\* C9: after every frame killsThisWave is in 0..7.
C9_KillsBelowThreshold == killsThisWave \in 0..7

C9_Witness ==
  /\ op = "frame" /\ Len(lastKills) = 1 /\ waveNumber = 2 /\ killsThisWave = 0

C11_Base  == CASE difficulty = "easy" -> 80 [] difficulty = "normal" -> 60
               [] difficulty = "hard" -> 40
C11_SpeedBase == CASE difficulty = "easy" -> 70 [] difficulty = "normal" -> 100
                   [] difficulty = "hard" -> 150
C11_Wb    == IF waveNumber - 1 < 9 THEN waveNumber - 1 ELSE 9

C11_SpawnAndSpeedFormula ==
  gameStarted =>
    /\ difficulty \in {"easy", "normal", "hard"}
    /\ enemySpawnRate =
         (IF C11_Base - 3 * C11_Wb > 20 THEN C11_Base - 3 * C11_Wb ELSE 20)
    /\ enemySpeedMult = C11_SpeedBase + 8 * C11_Wb
    /\ enemySpawnRate >= 20 /\ enemySpawnRate # 0

C11_Witness ==
  /\ gameStarted /\ difficulty = "hard" /\ waveNumber = 11
  /\ enemySpawnRate = 20 /\ enemySpeedMult = 222

\* C12: pause and resume preserve the elapsed game time: the pause step
\* snapshots now - startTime, the snapshot stands while the game is paused,
\* right after the resume now - startTime equals the snapshot, and a frame of
\* a running game adds exactly the time that passed (no jump).
C12_PausePreservesElapsed ==
  /\ [](Running => elapsedTime = now - startTime)
  /\ [][ /\ (Running /\ Paused') => elapsedTime' = now' - startTime'
         /\ (Paused /\ Paused') =>
              (elapsedTime' = elapsedTime /\ startTime' = startTime)
         /\ (Paused /\ Running') =>
              (now' - startTime' = elapsedTime /\ elapsedTime' = elapsedTime)
         /\ (FrameStep /\ Running) =>
              elapsedTime' - elapsedTime = now' - now ]_vars

C12_Witness ==
  /\ op = "keydown" /\ Running /\ now - pausedAt = 300
  /\ elapsedTime > 0 /\ now - startTime = elapsedTime

\* C13: the pause key is one boolean flip: Running becomes Paused, Paused
\* becomes Running, and neither step touches an entity store or a counter; in
\* Idle and in GameOver the key changes nothing.
C13_PauseKey == op' = "keydown" /\ keys' = keys

C13_PauseIsFlip ==
  [][ C13_PauseKey =>
        /\ Running => Paused'
        /\ Paused => Running'
        /\ Idle => (Idle' /\ UNCHANGED progVars)
        /\ GameOver => (GameOver' /\ UNCHANGED progVars)
        /\ UNCHANGED << player, bullets, enemies, particles, meteors, score,
                        lives, frame, waveNumber, killsThisWave, shotsFired,
                        shotsHit, enemiesKilled, gameStarted, gameRunning >>
    ]_vars

C13_Witness ==
  /\ op = "keydown" /\ Running /\ pausedAt = now
  /\ Len(enemies) > 0 /\ elapsedTime > 0

\* C14: a fire action in Idle, Paused or GameOver is ignored: a canvas click
\* changes no variable of the program, and a frame with the fire key held
\* creates no bullet and leaves shotsFired and lastShot as they are.
C14_FireIgnored ==
  [][ /\ (op' = "click" /\ ~Running) => UNCHANGED progVars
      /\ (FrameStep /\ ~Running /\ keys[" "]) =>
           UNCHANGED << bullets, shotsFired, lastShot >> ]_vars

C14_Witness ==
  /\ op = "click" /\ GameOver /\ keys[" "]
  /\ now > startTime + elapsedTime /\ now - lastShot >= 150

\* C15: a reset from Idle, Running, Paused or GameOver empties the four
\* stores, sets score 0, lives 3, waveNumber 1, the shot, kill and time
\* counters 0, the player to x = 275 and the lifecycle to Idle; a reset right
\* after a reset changes nothing.
C15_ResetCanonical ==
  [][ op' = "reset" =>
        /\ bullets' = << >> /\ enemies' = << >> /\ particles' = << >>
        /\ meteors' = << >> /\ score' = 0 /\ lives' = 3 /\ waveNumber' = 1
        /\ killsThisWave' = 0 /\ shotsFired' = 0 /\ shotsHit' = 0
        /\ enemiesKilled' = 0 /\ frame' = 0 /\ startTime' = 0
        /\ elapsedTime' = 0 /\ player'.x = 275
        /\ Idle' /\ ~gameRunning' /\ ~gamePaused'
        /\ op = "reset" => UNCHANGED progVars ]_vars

C15_Witness ==
  /\ op = "reset" /\ Idle /\ spawned >= 3 /\ enemySpawnRate = 40
  /\ lives = 3 /\ Len(particles) = 0 /\ pendingLoops > 0

\* C16: the first fire attempt of a started game made in Running creates one
\* bullet at (player.x + 24, player.y) and sets shotsFired to 1; a second
\* attempt less than 150 ms later creates none.
C16_FirstShotFires ==
  [][ /\ (op' = "click" /\ Running /\ shotsFired = 0) =>
           /\ shotsFired' = 1
           /\ bullets' = Append(bullets, [x |-> player.x + 24, y |-> player.y,
                                          dead |-> FALSE])
      /\ (op' = "start" /\ keys[" "]) => shotsFired' = 1
      /\ (op' = "click" /\ Running /\ shotsFired = 1 /\ now - lastShot < 150) =>
           UNCHANGED << bullets, shotsFired >> ]_vars

\* C17: start(d) from Idle sets (lives, spawn interval, speed multiplier,
\* player speed) to (5, 80, 0.7, 7), (3, 60, 1, 6) or (1, 40, 1.5, 5) for
\* easy, normal, hard, waveNumber to 1, killsThisWave to 0 and the lifecycle
\* to Running.
C17_StartTable ==
  [][ op' = "start" =>
        /\ Idle /\ Running'
        /\ waveNumber' = 1 /\ killsThisWave' = 0
        /\ << lives', enemySpawnRate', enemySpeedMult', player'.speed >> =
             CASE difficulty' = "easy"   -> << 5, 80, 70, 7 >>
               [] difficulty' = "normal" -> << 3, 60, 100, 6 >>
               [] difficulty' = "hard"   -> << 1, 40, 150, 5 >> ]_vars

C17_Witness ==
  /\ op = "start" /\ difficulty = "easy" /\ lives = 5 /\ player.speed = 7
  /\ enemySpawnRate = 80 /\ prevCreate > 0 /\ shotsFired = 0

\* C18: collides(a, b) is true iff a.x < b.x+b.w, a.x+a.w > b.x, a.y < b.y+b.h
\* and a.y+a.h > b.y; rectangles that only touch along an edge or at a corner
\* do not collide, a rectangle contained in another does, and collides(b, a)
\* gives the same result.
C18_Touching(a, b) ==
  \/ a.x + a.w = b.x \/ b.x + b.w = a.x
  \/ a.y + a.h = b.y \/ b.y + b.h = a.y

C18_Inside(a, b) ==
  /\ b.x <= a.x /\ a.x + a.w <= b.x + b.w
  /\ b.y <= a.y /\ a.y + a.h <= b.y + b.h

C18_CollidesOverlap ==
  op = "collides" =>
    LET a == arg[1]
        b == arg[2]
    IN  /\ res <=> ( a.x < b.x + b.w /\ a.x + a.w > b.x
                     /\ a.y < b.y + b.h /\ a.y + a.h > b.y )
        /\ C18_Touching(a, b) => ~res
        /\ (C18_Inside(a, b) \/ C18_Inside(b, a)) => res
        /\ res <=> collides(b, a)

C18_Witness ==
  /\ op = "collides" /\ ~res
  /\ arg[1].x + arg[1].w = arg[2].x
  /\ arg[1].y < arg[2].y + arg[2].h /\ arg[1].y + arg[1].h > arg[2].y

\* C19: an update of a running game appends a new enemy iff the frame
\* counter, after its increment, is a multiple of the spawn interval in force,
\* and never more than one; the draws do not enter the decision.
C19_SpawnOnMultiple ==
  [][ /\ UpdateStep =>
           /\ spawned' - spawned = (IF (frame + 1) % enemySpawnRate = 0 THEN 1 ELSE 0)
           /\ frame' = frame + 1
           /\ spawned' > spawned =>
                \/ /\ Len(enemies') > 0
                   /\ enemies'[Len(enemies')].id = spawned'
                   /\ \A i \in 1..(Len(enemies') - 1) : enemies'[i].id < spawned'
                \/ \E k \in 1..Len(lastKills') : lastKills'[k][1] = spawned'
      /\ op' = "start" => spawned' = spawned ]_vars

C19_Witness ==
  /\ op = "frame" /\ waveNumber = 3 /\ frame % enemySpawnRate = 0
  /\ Len(enemies) > 0 /\ enemies[Len(enemies)].id = spawned
  /\ enemies[Len(enemies)].y = -50 + enemies[Len(enemies)].speed

\* C20: the accuracy is round(100 * shotsHit / shotsFired), the nearest
\* integer with a tie going up as Math.round does, when shotsFired > 0, and 0
\* when shotsFired = 0; 50 for 5 of 10.
C20_AccuracyRounded ==
  op = "acc" =>
    LET hit   == arg[1]
        fired == arg[2]
    IN  /\ fired = 0 => res = 0
        /\ fired > 0 =>
             /\ 2 * res * fired - fired <= 200 * hit
             /\ 200 * hit < 2 * res * fired + fired
        /\ (hit = 5 /\ fired = 10) => res = 50


\* C21: a pending bonus is consumed exactly once: startGame() makes the score
\* the pending amount and empties the store (so a later start without a new
\* deposit begins at 0), and only a reward or a start changes the store
C21_BonusConsumedOnce ==
  [][/\ op' = "start" =>
          score' = laserDefenderBonus /\ laserDefenderBonus' = 0
     /\ (op' # "start" /\ lastReward' = 0) =>
          laserDefenderBonus' = laserDefenderBonus]_vars

\* a game has just started with the banked rewards of both easter eggs as
\* its score
C21_Witness ==
  op = "start" /\ score = KonamiReward + HackReward /\ laserDefenderBonus = 0


\* C24: every easter-egg reward reaches the player: a reward granted during
\* an active game is added to the live score, and a game starts with the sum
\* of the rewards granted outside a game since the previous start
C24_EveryRewardReceived ==
  [][/\ (lastReward' > 0 /\ gameStarted /\ gameRunning) =>
          score' = score + lastReward'
     /\ op' = "start" => score' = banked]_vars


\* C22: a deferred callback that fires after a reset leaves the session state
\* as it is: the deferred resetGame() of saveAndRestart() is scheduled in the
\* game-over state, so when it fires in any other state a reset has happened
\* in between
C22_StaleTimerHarmless ==
  [][(op' = "timeout" /\ timers[nextTimer(St)].fn = "resetGame" /\ ~GameOver)
       => UNCHANGED progVars]_vars


\* the number of saved scores above v
C23_Above(v) ==
  BagCardinality([w \in {u \in BagToSet(saved) : u > v} |-> saved[w]])

\* the number of board entries with score v
C23_OnBoard(v) ==
  Cardinality({i \in DOMAIN leaderboard : leaderboard[i].score = v})

\* C23: after any sequence of saveScore() calls the board is sorted by score
\* in descending order, holds at most 20 entries, and holds the 20 highest
\* scores ever saved (all of them when fewer than 20 were saved)
C23_BoardTopTwenty ==
  /\ \A i, j \in DOMAIN leaderboard :
       i < j => leaderboard[i].score >= leaderboard[j].score
  /\ Len(leaderboard) <= BoardMax
  /\ Len(leaderboard) = Min(BoardMax, BagCardinality(saved))
  /\ \A v \in BagToSet(saved) :
       C23_OnBoard(v) = Min(CopiesIn(v, saved), Max(0, BoardMax - C23_Above(v)))

\* more than 20 scores were saved and a lowest one has left the full board
C23_Witness ==
  /\ BagCardinality(saved) > BoardMax /\ Len(leaderboard) = BoardMax
  /\ BagIn(0, saved) /\ leaderboard[BoardMax].score > 0
  /\ leaderboard[1].score > leaderboard[BoardMax].score


\* the health of enemy id before the step (that of a new enemy if it is
\* spawned in the step)
C25_HealthBefore(id) ==
  IF \E i \in DOMAIN enemies : enemies[i].id = id
  THEN enemies[CHOOSE i \in DOMAIN enemies : enemies[i].id = id].health
  ELSE EnemyHealth

\* C25: within one update() each enemy is hit by at most one bullet: an
\* enemy that stays has lost at most 1 health, an enemy killed had at most
\* 1 health left, and no more bullets hit than enemies were damaged
C25_OneHitPerEnemy ==
  [][(UpdateStep /\ ~meteorActive /\ ~meteorActive') =>
       /\ \A j \in DOMAIN enemies' :
            enemies'[j].health >= C25_HealthBefore(enemies'[j].id) - 1
       /\ \A k \in DOMAIN lastKills' :
            C25_HealthBefore(lastKills'[k][1]) <= 1
       /\ shotsHit' - shotsHit <=
            Len(lastKills')
            + Cardinality({j \in DOMAIN enemies' :
                 enemies'[j].health
                   < C25_HealthBefore(enemies'[j].id)})]_vars


\* C26: every bullet is consumed by at most one target: each fired bullet is
\* either still live in the store or has left it, and has raised shotsHit
\* at most once on the way; so shotsHit <= shotsFired and the accuracy is
\* at most 100
C26_HitsWithinShots ==
  /\ shotsHit + Cardinality({i \in DOMAIN bullets : ~bullets[i].dead})
       <= shotsFired
  /\ shotsHit <= shotsFired
  /\ finalAccuracy <= 100

\* bullets have hit an enemy and a meteor, and others are still in flight
C26_Witness ==
  /\ Len(scored) > 0 /\ shotsHit > 2 * Len(scored)
  /\ \E i \in DOMAIN bullets : ~bullets[i].dead
  /\ \E i \in DOMAIN bullets : bullets[i].dead


\* enemy e of the state before the step, moved by its speed, intersects the
\* player of the state after the step
C27_Reaches(e) ==
  collides(EnemyRect([e EXCEPT !.y = @ + e.speed]),
           Rect(player'.x, player'.y, player'.w, player'.h))

\* C27: in an update() the enemies that hit the player are exactly those that
\* intersect the player and were not killed by a bullet in that update; each
\* costs one life and leaves the store, none of them is scored or counted
\* as a kill
C27_RamCostsOneLife ==
  [][(UpdateStep /\ ~meteorActive /\ ~meteorActive') =>
       LET killed == {lastKills'[k][1] : k \in DOMAIN lastKills'}
           rammed == {lastRams'[k] : k \in DOMAIN lastRams'}
       IN  /\ lives' = lives - Len(lastRams')
           /\ Cardinality(rammed) = Len(lastRams')
           /\ rammed \cap killed = {}
           /\ \A i \in DOMAIN enemies :
                enemies[i].id \in rammed
                  <=> (C27_Reaches(enemies[i]) /\ enemies[i].id \notin killed)
           /\ \A j \in DOMAIN enemies' : enemies'[j].id \notin rammed
           /\ \A id \in rammed :
                \A k \in DOMAIN scored' : scored'[k] # id
           /\ enemiesKilled' = enemiesKilled + Len(lastKills')
           /\ score' = score + SumSeq([k \in DOMAIN lastKills' |->
                                        killValue(lastKills'[k][2])])]_vars

\* an enemy has just hit the player and cost the last life, unscored
C27_Witness ==
  /\ op = "frame" /\ Len(lastRams) = 1 /\ lives = 0 /\ score = 0
  /\ enemiesKilled = 0


\* the stores after the step hold no dead or departed enemy, in spawn order,
\* and the bullets in firing order
C28_EnemiesCompact ==
  /\ \A j \in DOMAIN enemies' :
       ~enemies'[j].dead /\ enemies'[j].y < EnemyExitY
  /\ \A i, j \in DOMAIN enemies' : i < j => enemies'[i].id < enemies'[j].id
  /\ \A i, j \in DOMAIN bullets' : i < j => bullets'[i].y < bullets'[j].y

\* a step without kill, hit on the player or meteor shower changes neither
\* lives nor score, whatever leaves the canvas at the bottom
C28_ExitIsFree ==
  (lastKills' = << >> /\ lastRams' = << >> /\ ~meteorActive /\ ~meteorActive')
    => lives' = lives /\ score' = score

\* C28: at the end of every update() the bullet store holds no consumed
\* bullet and the enemy store no enemy that is dead or has y >= 850; an
\* enemy that leaves at the bottom changes neither lives nor score, and
\* compaction keeps the order of the survivors
C28_StoresCompact ==
  [][UpdateStep =>
       /\ \A i \in DOMAIN bullets' : ~bullets'[i].dead
       /\ C28_EnemiesCompact
       /\ C28_ExitIsFree]_vars


\* the stored particles that outlive the step
C29_Lasting(p) == p.life > 1

\* the particles of the state before the step that are kept, in order, each
\* with its lifetime less 1, come first after the step; the rest are whole
\* bursts made in the step, of lifetime 25 less the decrement of the step
C29_StepAges ==
  LET old == SelectSeq(particles, C29_Lasting)
      n   == Len(old)
  IN  /\ Len(particles') >= n
      /\ \A i \in 1..n : particles'[i].life = old[i].life - 1
      /\ (Len(particles') - n) % BoomCount = 0
      /\ \A i \in (n + 1)..Len(particles') :
           particles'[i].life \in {ParticleLife - 1, ParticleLife}
      /\ (~meteorActive /\ ~meteorActive') =>
           /\ Len(particles') - n
                = BoomCount * (Len(lastKills') + Len(lastRams'))
           /\ \A i \in (n + 1)..Len(particles') :
                particles'[i].life = ParticleLife - 1

\* update() run without the stored particles gives the same bullets,
\* enemies, meteors, lives, counters and score
C29_NoCollision ==
  \E d \in MeteorDraws :
    LET r == update([Began("frame") EXCEPT !.now = now',
                                           !.particles = << >>], d)
    IN  /\ r.bullets = bullets' /\ r.enemies = enemies'
        /\ r.meteors = meteors' /\ r.lives = lives' /\ r.score = score'
        /\ r.shotsHit = shotsHit' /\ r.enemiesKilled = enemiesKilled'
        /\ r.gameRunning = gameRunning'

\* C29: a burst adds 12 particles of lifetime 25; every update() takes 1 off
\* the lifetime of each stored particle and removes it at 0, so stored
\* lifetimes are in 1..25 and a particle is gone at most 25 updates after
\* its creation; particles take part in no collision test
C29_ParticleLifetime ==
  /\ [](\A i \in DOMAIN particles : particles[i].life \in 1..ParticleLife)
  /\ [](Len(particles) % BoomCount = 0)
  /\ [][UpdateStep => C29_StepAges /\ C29_NoCollision]_vars
  /\ [][~UpdateStep => (particles' = particles \/ particles' = << >>)]_vars

\* the burst of a kill is in the last update of its lifetime
C29_Witness ==
  /\ op = "frame" /\ Len(particles) = BoomCount /\ particles[1].life = 1
  /\ enemiesKilled > 0


\* the number of the update() that moved bullet b first: bullets start at
\* PlayerY and move up by BulletSpeed in every update()
C30_Born(b) == frame + 1 - (PlayerY - b.y) \div BulletSpeed

C30_InStore(n) == \E i \in DOMAIN bullets : C30_Born(bullets[i]) = n

\* the updates a bullet fired from PlayerY can be stored after
C30_MaxAge == (PlayerY - BulletCullY - 1) \div BulletSpeed

\* C30: while the game runs and its steps are taken fairly, every bullet
\* leaves the store: each update() moves it up by 14 and it is culled once
\* its y is <= -20 or earlier when consumed, that is in the 53rd update()
\* after it was fired from y = 720 at the latest
C30_BulletsLeave ==
  /\ [](\A i \in DOMAIN bullets :
          /\ bullets[i].y > BulletCullY
          /\ (PlayerY - bullets[i].y) % BulletSpeed = 0
          /\ (PlayerY - bullets[i].y) \div BulletSpeed \in 0..C30_MaxAge)
  /\ [][UpdateStep =>
          \A j \in DOMAIN bullets' :
            \/ bullets'[j].y = PlayerY - BulletSpeed
            \/ \E i \in DOMAIN bullets :
                 bullets'[j].y = bullets[i].y - BulletSpeed]_vars
  /\ \A n \in FlyFrom..(FlyTo + 2) :
       (C30_InStore(n) /\ Running) ~> (~C30_InStore(n) \/ ~Running)

\* a running game holds a bullet that was moved 52 times
C30_Witness ==
  /\ Running
  /\ \E i \in DOMAIN bullets :
       bullets[i].y = PlayerY - C30_MaxAge * BulletSpeed


----------------------------------------------------------------------------
\* what a gameLoop callback can change: everything of the session but the clock
C31_Session ==
  << player, bullets, enemies, particles, meteors, score, lives, keys,
     gameRunning, gamePaused, gameStarted, frame, waveNumber, killsThisWave,
     shotsFired, shotsHit, enemiesKilled, startTime, elapsedTime,
     enemySpawnRate, enemySpeedMult, lastShot, meteorActive, meteorTimer,
     lastMeteorCheck, gameOverEl, difficultyScreen >>

\* the display frame after a reset runs the queued gameLoop without effect and
\* leaves none queued
C31_LastFrame ==
  [][(op' = "frame" /\ ~gameStarted)
       => (pendingLoops' = 0 /\ C31_Session' = C31_Session)]_vars

\* while a game is started (running, paused or over) a gameLoop is queued
C31_LoopKept == gameStarted => pendingLoops >= 1

\* C31: once gameStarted is false at most one gameLoop callback is still
\* queued; it runs in the next display frame without changing the session and
\* no gameLoop is queued after it until the next start; while a game is
\* started, paused and game over included, a gameLoop stays queued
C31_LoopStopsAfterReset ==
  /\ [](~gameStarted => pendingLoops <= 1)
  /\ C31_LastFrame
  /\ []C31_LoopKept


----------------------------------------------------------------------------
\* a queued gameLoop callback draws in the next display frame
C32_GameDraws == pendingLoops > 0

\* a queued drawIdleBackground callback draws in the next display frame
C32_IdleDraws == pendingIdle > 0 /\ idleRunning

\* C32: in no display frame do both a gameLoop callback and a
\* drawIdleBackground callback draw
C32_LoopsExclusive ==
  [][op' = "frame" => ~(C32_GameDraws /\ C32_IdleDraws)]_vars


----------------------------------------------------------------------------
\* C33: when the ten latest keydown events are the Konami code, the tenth of
\* them grants the reward, whatever was typed before; a key that does not
\* continue the tracked progress discards all of it
C33_KonamiAnywhere ==
  /\ [][(op' = "keydown" /\ typed' = Len(KONAMI))
          => lastReward' = KonamiReward]_vars
  /\ [][op' = "keydown" => konamiIdx' \in {0, konamiIdx + 1}]_vars


----------------------------------------------------------------------------
\* C34: at most one drawIdleBackground callback is queued at any time
C34_OneIdleLoop == pendingIdle <= 1


----------------------------------------------------------------------------
\* C35: at most one gameLoop callback is queued at any time, and a display
\* frame runs update() at most once
C35_OneGameLoop ==
  /\ [](pendingLoops <= 1)
  /\ [][op' = "frame" => frame' <= frame + 1]_vars


----------------------------------------------------------------------------
\* C36: the score of one run is passed to saveScore() at most once
C36_SavedOnce == runSaves <= 1


----------------------------------------------------------------------------
\* C37: from the first endGame() of a run until the reset, score, lives,
\* enemiesKilled, shotsHit and waveNumber stay as endGame() found them
C37_FrozenFromEndGame == atEnd # << >> => statsOf(St) = atEnd


----------------------------------------------------------------------------
\* C38: in a started game the kills of the run are eight for every completed
\* wave plus the kills of the current wave
C38_KillsByWave ==
  gameStarted
    => enemiesKilled = KILLS_PER_WAVE * (waveNumber - 1) + killsThisWave

\* a kill has been counted in the second wave
C38_Witness ==
  /\ gameStarted /\ waveNumber = 2 /\ killsThisWave = 1
  /\ enemiesKilled = KILLS_PER_WAVE + 1


----------------------------------------------------------------------------
\* C39: two consecutive spawns of a run are at least 20 updates apart
C39_SpawnsApart ==
  [][(UpdateStep /\ spawned' > spawned /\ lastSpawn >= 0)
       => lastSpawn' - lastSpawn >= SpawnFloor]_vars


----------------------------------------------------------------------------
\* the latest meteor of the store was spawned in the step
C40_Fresh ==
  /\ Len(meteors') > 0
  /\ meteors'[Len(meteors')].y = MeteorSpawnY + meteors'[Len(meteors')].speed

\* C40: a meteor shower is measured in time played: it ends only after more
\* than 6 s of running game, and during its first 5 s of running game every
\* update whose frame is a multiple of 8 spawns a meteor
C40_ShowerInGameTime ==
  /\ [][(UpdateStep /\ meteorActive /\ ~meteorActive' /\ gameStarted')
          => elapsedTime' - showerAt > MeteorEndMs]_vars
  /\ [][(UpdateStep /\ meteorActive /\ elapsedTime' - showerAt < MeteorSpawnMs
           /\ frame' % MeteorEvery = 0 /\ shotsHit' = shotsHit)
          => C40_Fresh]_vars

============================================================================
